---------------------------- MODULE Spec2Model ----------------------------
(***************************************************************************)
(* State-machine model of the ground control point panel                   *)
(* (gui/GroundControlPointsView.cxx).                                       *)
(*                                                                         *)
(* The panel shows the list of ground control points owned by a helper,    *)
(* displays the current point in three numeric editors, writes edits back  *)
(* to the point, copies its location to the clipboard, and follows the     *)
(* helper's notifications.  Every action below is one top-level event of   *)
(* the single GUI thread: the handler runs to completion, together with    *)
(* every signal it raises synchronously.                                   *)
(*                                                                         *)
(* Numbers.  A double is held as a binary fraction n / 2^e (exact) or as    *)
(* the double nearest to a decimal n / 10^p (what a text with p decimals   *)
(* converts to).  QString::number(v, 'f', p) is the decimal text of v with *)
(* p digits after the point; an editor stores what it is given rounded to  *)
(* its decimals and bounded to its range.                                  *)
(***************************************************************************)
EXTENDS Integers, Sequences, FiniteSets, TLC

VARIABLES
    form,          \* decimals, minimum and maximum of the three editors
    helper,        \* d->helper: NoHelper (nullptr) or TheHelper
    currentPoint,  \* d->currentPoint
    enabled,       \* enabled flag of every control enableControls touches
    easting,       \* value of UI.easting
    northing,      \* value of UI.northing
    elevation,     \* value of UI.elevation
    rows,          \* ids held by the list model (GroundControlPointsModel)
    listCurrent,   \* id under the selection model's current index
    gcps,          \* the helper's points: id -> ground control point
    editsLeft,     \* committed edits the model still explores
    ev,            \* the last event and its arguments
    nShow,         \* calls of showPoint during the last event
    shownId,       \* argument of the last showPoint call of the last event
    nSelect,       \* calls of selectionModel()->select during the last event
    selected,      \* index given to the last of them
    nSetPos,       \* calls of setPointPosition during the last event
    modified,      \* ids passed to model.modifyPoint during the last event
    calls,         \* helper operations the view called during the last event
    warnings,      \* qWarning lines logged during the last event
    copied,        \* texts given to QClipboard::setText during the last event
    nullDeref,     \* the last event called through a null helper pointer
    crashed        \* the process died of that call

vars == <<form, helper, currentPoint, enabled, easting, northing, elevation,
          rows, listCurrent, gcps, editsLeft, ev, nShow, shownId, nSelect,
          selected, nSetPos, modified, calls, warnings, copied, nullDeref,
          crashed>>

----------------------------------------------------------------------------
(* Bounds of the model *)

\* committed edits explored in one run
MaxEdits == 1

\* the ids the helper hands out
Ids == {1, 2}

\* std::numeric_limits<id_t>::max(): the largest value of the id type, which
\* the helper never hands out
INVALID_POINT == 3

IdT == Ids \cup {INVALID_POINT}

NoHelper == "nullptr"
TheHelper == "helper"

----------------------------------------------------------------------------
(* Numbers and their text *)

CoordPrecision == 9
ElevPrecision == 3

RECURSIVE Pow(_, _)
Pow(b, n) == IF n = 0 THEN 1 ELSE b * Pow(b, n - 1)

Abs(i) == IF i >= 0 THEN i ELSE -i

\* the double n / 2^e: a binary fraction, held exactly
Bin(n, e) == [n |-> n, two |-> e, ten |-> 0]

\* the double nearest to the decimal n / 10^p
Dec(n, p) == [n |-> n, two |-> 0, ten |-> p]

\* the doubles a and b are the same number
SameValue(a, b) ==
    LET a2 == a.two + a.ten
        b2 == b.two + b.ten
        m2 == IF a2 < b2 THEN a2 ELSE b2
        m5 == IF a.ten < b.ten THEN a.ten ELSE b.ten
    IN  a.n * Pow(2, b2 - m2) * Pow(5, b.ten - m5)
            = b.n * Pow(2, a2 - m2) * Pow(5, a.ten - m5)

\* v / m rounded to the nearest integer, halves away from zero
RoundDiv(v, m) ==
    IF v >= 0 THEN (2 * v + m) \div (2 * m)
    ELSE -((2 * (-v) + m) \div (2 * m))

\* v * 10^prec rounded to an integer the way the 'f' format rounds: to the
\* nearest, and a half away from zero.  A binary fraction is halfway exactly
\* when its scaled value is; a decimal with more than prec digits is held by
\* its nearest double, which is halfway only when the decimal is a binary
\* fraction itself (5^p divides n), and the operator is not defined for the
\* other decimal halves.  A decimal with at most prec digits prints as itself.
fixed(v, prec) ==
    IF v.ten <= prec
    THEN LET k == prec - v.ten
         IN  IF v.two <= k
             THEN v.n * Pow(5, k) * Pow(2, k - v.two)
             ELSE RoundDiv(v.n * Pow(5, k), Pow(2, v.two - k))
    ELSE LET m == Pow(10, v.ten - prec)
         IN  CASE 2 * (Abs(v.n) % m) # m \/ v.n % Pow(5, v.ten) = 0 ->
                     RoundDiv(v.n, m)

\* QString::number(v, 'f', prec): the decimal text with prec digits after
\* the point, held as its sign and its digits (text "-0.003" is
\* [prec |-> 3, neg |-> TRUE, digits |-> 3])
number(v, prec) ==
    [prec |-> prec, neg |-> v.n < 0, digits |-> Abs(fixed(v, prec))]

----------------------------------------------------------------------------
(* Geodesy: kv::geo_point *)

lat_lon_WGS84 == "lat_lon_WGS84"
UTM == "UTM"
BadCRS == "unsupported"

CRSs == {lat_lon_WGS84, UTM, BadCRS}

\* a default-constructed geo_point: is_empty()
EmptyLoc ==
    [empty |-> TRUE, crs |-> lat_lon_WGS84, x |-> Bin(0, 0), y |-> Bin(0, 0)]

geo_point(x, y, crs) == [empty |-> FALSE, crs |-> crs, x |-> x, y |-> y]

is_empty(gl) == gl.empty

\* gl.location(crs) throws when no conversion from gl.crs() exists
conversionThrows(gl) == gl.crs = BadCRS

\* gl.location(kv::SRID::lat_lon_WGS84): the stored value when it is already
\* in that frame, else a (non-identity) conversion of it
location(gl) ==
    IF gl.crs = lat_lon_WGS84 THEN [x |-> gl.x, y |-> gl.y]
    ELSE [x |-> [gl.y EXCEPT !.n = -(@ + 5)], y |-> [gl.x EXCEPT !.n = @ + 32]]

Zero == [x |-> Bin(0, 0), y |-> Bin(0, 0)]

\* mutant: a failed conversion is not replaced by the zero vector
grlOf_noCatch(gl) == IF ~is_empty(gl) THEN location(gl) ELSE Zero

\* the lambda of showPoint and copyLocation: the converted location, or the
\* zero vector for an empty location or a failed conversion
grlOf(gl) ==
    IF ~is_empty(gl) /\ ~conversionThrows(gl) THEN location(gl) ELSE Zero

----------------------------------------------------------------------------
(* Values the environment and the user supply *)

\* locations the helper computes: none yet, one in a projected frame, one
\* in a frame the geodesy library cannot convert (a location in WGS84 is
\* what an edit stores)
EnvLocs ==
    {EmptyLoc,
     geo_point(Bin(14, 11), Bin(26, 11), UTM),
     geo_point(Bin(14, 11), Bin(26, 11), BadCRS)}

\* 2.9375
EnvElevations == {Bin(47, 4)}

\* points as the helper creates, recomputes and resets them
EnvGcps == [loc : EnvLocs, elevation : EnvElevations, userProvided : {FALSE}]

\* what the user types into an editor: digits, read at the editor's decimals
EditValues == {58}

Fields == {"easting", "northing", "elevation"}

CopyActions == {"actionCopyLocationLatLon", "actionCopyLocationLatLonElev",
                "actionCopyLocationLonLat", "actionCopyLocationLonLatElev"}

Controls == Fields \cup {"actionDelete", "actionRevert", "copyLocationButton"}
            \cup CopyActions

----------------------------------------------------------------------------
(* The editors: QDoubleSpinBox *)

\* the properties of one editor; minimum and maximum are counted in units of
\* its last decimal
Editor(decimals, minimum, maximum) ==
    [decimals |-> decimals, minimum |-> minimum, maximum |-> maximum]

\* the editors as QDoubleSpinBox constructs them: 2 decimals, 0 to 99.99
DefaultForm == [f \in Fields |-> Editor(2, 0, 9999)]

\* editors that show what copyLocation prints: 9 decimals of a coordinate
\* between -1 and 1, 3 decimals of an elevation between -1000 and 1000
PreciseForm ==
    [f \in Fields |->
        IF f = "elevation"
        THEN Editor(ElevPrecision, -Pow(10, 6), Pow(10, 6))
        ELSE Editor(CoordPrecision, -Pow(10, 9), Pow(10, 9))]

\* the settings of the editors the model explores
Forms == {DefaultForm, PreciseForm}

\* QDoubleSpinBoxPrivate::round: the value of the text of v with the
\* editor's decimals
round(v, editor) == Dec(fixed(v, editor.decimals), editor.decimals)

\* QAbstractSpinBoxPrivate::bound: v kept within minimum and maximum
bound(v, editor) ==
    [v EXCEPT !.n = IF @ < editor.minimum THEN editor.minimum
                    ELSE IF @ > editor.maximum THEN editor.maximum
                    ELSE @]

\* the value an editor holds after it was given v
displayed(v, editor) == bound(round(v, editor), editor)


----------------------------------------------------------------------------
(* The state as one record, so that a handler is a function of states *)

State ==
    [form |-> form,
     helper |-> helper, currentPoint |-> currentPoint, enabled |-> enabled,
     easting |-> easting, northing |-> northing, elevation |-> elevation,
     rows |-> rows, listCurrent |-> listCurrent,
     gcps |-> gcps,
     nShow |-> nShow, shownId |-> shownId, nSelect |-> nSelect,
     selected |-> selected,
     nSetPos |-> nSetPos, modified |-> modified, calls |-> calls,
     warnings |-> warnings, copied |-> copied, nullDeref |-> nullDeref, crashed |-> crashed]

\* the state an event starts from: the per-event records are cleared
Begin ==
    [State EXCEPT !.nShow = 0, !.shownId = INVALID_POINT, !.nSelect = 0,
                  !.selected = INVALID_POINT, !.nSetPos = 0, !.modified = <<>>, !.calls = <<>>,
                  !.warnings = 0, !.copied = <<>>, !.nullDeref = FALSE]

\* the event ends in state result
Commit(result) ==
    \E s \in {result} :
       /\ form' = s.form
       /\ helper' = s.helper
       /\ currentPoint' = s.currentPoint
       /\ enabled' = s.enabled
       /\ easting' = s.easting
       /\ northing' = s.northing
       /\ elevation' = s.elevation
       /\ rows' = s.rows
       /\ listCurrent' = s.listCurrent
       /\ gcps' = s.gcps
       /\ nShow' = s.nShow
       /\ shownId' = s.shownId
       /\ nSelect' = s.nSelect
       /\ selected' = s.selected
       /\ nSetPos' = s.nSetPos
       /\ modified' = s.modified
       /\ calls' = s.calls
       /\ warnings' = s.warnings
       /\ copied' = s.copied
       /\ nullDeref' = s.nullDeref
       /\ crashed' = s.crashed

----------------------------------------------------------------------------
(* Collaborators: the helper's lookup and the list model *)

\* helper->groundControlPoint(id) is non-null
found(s, id) == id \in DOMAIN s.gcps

\* model.modifyPoint(id)
modifyPoint(s, id) == [s EXCEPT !.modified = Append(@, id)]

\* model.find(id): the id's row, or the invalid index
find(s, id) == IF id \in s.rows THEN id ELSE INVALID_POINT

\* QItemSelectionModel::select(index, ClearAndSelect | Current | Rows):
\* replaces the selection; the current index is not touched and
\* currentChanged is not emitted
select(s, index) ==
    [s EXCEPT !.selected = index, !.nSelect = @ + 1]

\* QItemSelectionModel::reset() on a model reset: no signal is emitted
resetSelection(s) == [s EXCEPT !.listCurrent = INVALID_POINT]

\* model.setPointData / model.resetPoints: the rows are the helper's points
resetPoints(s) == resetSelection([s EXCEPT !.rows = DOMAIN s.gcps])

\* model.addPoint(id)
addPoint(s, id) == [s EXCEPT !.rows = @ \cup {id}]

----------------------------------------------------------------------------
(* GroundControlPointsViewPrivate *)

\* mutant: the copy actions are enabled for every shown point
enableControls_ignoreLocation(s, state, haveLocation) ==
    [s EXCEPT !.enabled = [c \in Controls |-> state]]

\* mutant: the copy actions follow haveLocation alone
enableControls_copyWithoutState(s, state, haveLocation) ==
    [s EXCEPT !.enabled =
        [c \in Controls |->
            IF c \in CopyActions THEN haveLocation ELSE state]]

enableControls(s, state, haveLocation) ==
    [s EXCEPT !.enabled =
        [c \in Controls |->
            IF c \in CopyActions THEN state /\ haveLocation ELSE state]]

\* mutant: northing and easting are stored the wrong way round
setPointPosition_swapped(s0, id) ==
    LET s == [s0 EXCEPT !.nSetPos = @ + 1]
    IN  IF s.helper # NoHelper /\ id # INVALID_POINT /\ found(s, id)
        THEN modifyPoint(
                 [s EXCEPT !.gcps[id] =
                     [loc |-> geo_point(s.northing, s.easting, lat_lon_WGS84),
                      elevation |-> s.elevation,
                      userProvided |-> TRUE]],
                 id)
        ELSE s

setPointPosition(s0, id) ==
    LET s == [s0 EXCEPT !.nSetPos = @ + 1]
    IN  IF s.helper # NoHelper /\ id # INVALID_POINT /\ found(s, id)
        THEN modifyPoint(
                 [s EXCEPT !.gcps[id] =
                     [loc |-> geo_point(s.easting, s.northing, lat_lon_WGS84),
                      elevation |-> s.elevation,
                      userProvided |-> TRUE]],
                 id)
        ELSE s

\* mutant: the signals of the editor are not blocked
setValue_unblocked(s, f, v, signalsBlocked) ==
    LET nv == displayed(v, s.form[f])
        s1 == [s EXCEPT ![f] = nv]
    IN  IF s[f] # nv THEN setPointPosition(s1, s1.currentPoint) ELSE s1

\* QDoubleSpinBox::setValue on editor f: the editor stores v rounded to its
\* decimals and bounded to its range; valueChanged is emitted when that
\* changes the value and the editor's signals are not blocked, and is
\* connected to spp: setPointPosition(currentPoint)
setValue(s, f, v, signalsBlocked) ==
    LET nv == displayed(v, s.form[f])
        s1 == [s EXCEPT ![f] = nv]
    IN  IF s[f] # nv /\ ~signalsBlocked
        THEN setPointPosition(s1, s1.currentPoint)
        ELSE s1

\* mutant: the controls stay as they were
showMissing_keepsControls(s) == [s EXCEPT !.currentPoint = INVALID_POINT]

\* mutant: the current point stays as it was
showMissing_keepsCurrent(s) == enableControls(s, FALSE, TRUE)

\* the tail of showPoint, reached when the point is not shown
showMissing(s) ==
    enableControls([s EXCEPT !.currentPoint = INVALID_POINT], FALSE, TRUE)

showPoint(s0, id) ==
    LET s == [s0 EXCEPT !.nShow = @ + 1, !.shownId = id]
    IN  IF s.helper # NoHelper /\ id # INVALID_POINT /\ found(s, id)
        THEN LET s1 == [s EXCEPT !.currentPoint = id]
                 gl0 == s1.gcps[id].loc
                 failed == ~is_empty(gl0) /\ conversionThrows(gl0)
                 grl == grlOf(gl0)
                 s2 == [s1 EXCEPT !.warnings = IF failed THEN @ + 1 ELSE @]
                 s3 == setValue(s2, "easting", grl.x, TRUE)
                 s4 == setValue(s3, "northing", grl.y, TRUE)
                 s5 == setValue(s4, "elevation", s4.gcps[id].elevation, TRUE)
             IN  enableControls(s5, TRUE, ~is_empty(s5.gcps[id].loc))
        ELSE showMissing(s)

selectedPoint(s) ==
    IF s.listCurrent \in s.rows THEN s.listCurrent ELSE INVALID_POINT

\* mutant: the order flag is read the wrong way round
locationText_swapped(gcp, northingFirst, includeElevation) ==
    LET grl == grlOf(gcp.loc)
        X == number(grl.x, CoordPrecision)
        Y == number(grl.y, CoordPrecision)
    IN  (IF northingFirst THEN <<X, Y>> ELSE <<Y, X>>)
        \o (IF includeElevation
            THEN <<number(gcp.elevation, ElevPrecision)>>
            ELSE <<>>)

\* the text copyLocation joins with ','
locationText(gcp, northingFirst, includeElevation) ==
    LET grl == grlOf(gcp.loc)
        X == number(grl.x, CoordPrecision)
        Y == number(grl.y, CoordPrecision)
    IN  (IF northingFirst THEN <<Y, X>> ELSE <<X, Y>>)
        \o (IF includeElevation
            THEN <<number(gcp.elevation, ElevPrecision)>>
            ELSE <<>>)

\* this->helper is used unchecked: with no helper the call is undefined
\* (dies tells whether the process is killed by it)
copyLocation(s, northingFirst, includeElevation, dies) ==
    IF s.helper = NoHelper
    THEN [s EXCEPT !.nullDeref = TRUE, !.crashed = dies]
    ELSE IF found(s, s.currentPoint)
         THEN LET gcp == s.gcps[s.currentPoint]
              IN  IF ~is_empty(gcp.loc)
                  THEN [s EXCEPT
                           !.warnings =
                               IF conversionThrows(gcp.loc) THEN @ + 1 ELSE @,
                           !.copied =
                               Append(@, locationText(gcp, northingFirst,
                                                      includeElevation))]
                  ELSE s
         ELSE s

----------------------------------------------------------------------------
(* Signal handlers of the view, with the helper calls they make *)

\* mutant: the notification is not compared with the current point
onActivePointChanged_noGuard(s, id) ==
    LET s1 == showPoint(s, id)
    IN  select(s1, find(s1, id))

\* the lambda connected to GroundControlPointsHelper::activePointChanged
onActivePointChanged(s, id) ==
    IF s.currentPoint # id
    THEN LET s1 == showPoint(s, id)
         IN  select(s1, find(s1, id))
    ELSE s

\* helper->setActivePoint(id): the helper announces the point it was given
\* with activePointChanged(id), which comes back to the view
setActivePoint(s, id) ==
    onActivePointChanged(
        [s EXCEPT !.calls = Append(@, <<"setActivePoint", id>>)], id)

\* the lambda connected to QItemSelectionModel::currentChanged
onCurrentChanged(s) ==
    LET id == selectedPoint(s)
        s1 == showPoint(s, id)
    IN  IF s1.helper # NoHelper THEN setActivePoint(s1, id) ELSE s1

\* the user clicks a row: QItemSelectionModel::setCurrentIndex(row,
\* ClearAndSelect) selects it and emits currentChanged when the current
\* index changes
setCurrentIndex(s, row) ==
    IF s.listCurrent # row
    THEN onCurrentChanged([s EXCEPT !.listCurrent = row])
    ELSE s

\* mutant: the handler refreshes the other points and not the current one
onPointChanged_otherPoint(s, id) ==
    IF s.currentPoint # id THEN showPoint(s, id) ELSE s

\* the lambda connected to GroundControlPointsHelper::pointChanged
onPointChanged(s, id) ==
    IF s.currentPoint = id THEN showPoint(s, id) ELSE s

\* the lambda connected to GroundControlPointsHelper::pointsRecomputed
onPointsRecomputed(s) ==
    IF s.currentPoint # INVALID_POINT THEN showPoint(s, s.currentPoint) ELSE s

\* model.removePoint(id): the row goes; when it was the current row the
\* selection model moves the current index to a remaining row (next) and
\* emits currentChanged
removeRow(s, id, next) ==
    LET s1 == [s EXCEPT !.rows = @ \ {id}]
    IN  IF s.listCurrent = id
        THEN onCurrentChanged([s1 EXCEPT !.listCurrent = next])
        ELSE s1

\* the rows the current index can move to when row id is removed
NextRows(s, id) ==
    IF s.listCurrent = id /\ s.rows \ {id} # {}
    THEN s.rows \ {id}
    ELSE {INVALID_POINT}

\* the helper drops point id and emits pointRemoved(id)
removePoint(s, id, next) ==
    IF found(s, id)
    THEN LET s1 == [s EXCEPT !.gcps = [i \in DOMAIN @ \ {id} |-> @[i]]]
         IN  IF s1.helper # NoHelper
             THEN removeRow(s1, id, next)
             ELSE s1
    ELSE s

\* the helper stores v for point id and emits pointChanged(id)
changePoint(s, id, v) ==
    IF found(s, id)
    THEN LET s1 == [s EXCEPT !.gcps[id] = v]
         IN  IF s1.helper # NoHelper THEN onPointChanged(s1, id) ELSE s1
    ELSE s

\* helper->resetPoint(id): the point returns to its computed value v
resetPoint(s, id, v) == changePoint(s, id, v)

\* the lambda connected to actionDelete
deleteTriggered(s, next) ==
    IF s.helper # NoHelper /\ s.currentPoint # INVALID_POINT
    THEN removePoint(
             [s EXCEPT !.calls = Append(@, <<"removePoint", s.currentPoint>>)],
             s.currentPoint, next)
    ELSE s

\* the lambda connected to actionRevert
revertTriggered(s, v) ==
    IF s.helper # NoHelper /\ s.currentPoint # INVALID_POINT
    THEN LET s1 == resetPoint(
                       [s EXCEPT !.calls =
                            Append(@, <<"resetPoint", s.currentPoint>>)],
                       s.currentPoint, v)
         IN  modifyPoint(s1, s1.currentPoint)
    ELSE s

copyAction(northingFirst, includeElevation) ==
    IF northingFirst
    THEN (IF includeElevation THEN "actionCopyLocationLatLonElev"
          ELSE "actionCopyLocationLatLon")
    ELSE (IF includeElevation THEN "actionCopyLocationLonLatElev"
          ELSE "actionCopyLocationLonLat")

\* a disabled action or editor does not react to the user
isEnabled(s, control) == s.enabled[control]

\* what the call through d->helper in copyLocation can do to the process:
\* with a helper it returns; through a null pointer it is undefined, and
\* the process dies or goes on
Outcomes(s, action) ==
    IF isEnabled(s, action) /\ s.helper = NoHelper THEN BOOLEAN ELSE {FALSE}

----------------------------------------------------------------------------
(* Initial state: after the constructor *)

NoValue == [loc |-> EmptyLoc, elevation |-> Bin(0, 0), userProvided |-> FALSE]

Event(name, id, f, nf, ie) ==
    [name |-> name, id |-> id, f |-> f, nf |-> nf, ie |-> ie]

\* the user acted on a disabled control: the toolkit drops the input and no
\* handler of the view runs
Ignored == Event("ignored", INVALID_POINT, "", FALSE, FALSE)

\* the event a user input on a control becomes
Input(s, control, event) == IF isEnabled(s, control) THEN event ELSE Ignored

\* the state the constructor leaves, the editors being set up as ui
Constructed(ui) ==
    enableControls(
        [form |-> ui,
         helper |-> NoHelper, currentPoint |-> INVALID_POINT,
         enabled |-> [c \in Controls |-> TRUE],
         easting |-> displayed(Bin(0, 0), ui["easting"]),
         northing |-> displayed(Bin(0, 0), ui["northing"]),
         elevation |-> displayed(Bin(0, 0), ui["elevation"]),
         rows |-> {}, listCurrent |-> INVALID_POINT,
         gcps |-> <<>>,
         nShow |-> 0, shownId |-> INVALID_POINT, nSelect |-> 0,
         selected |-> INVALID_POINT,
         nSetPos |-> 0, modified |-> <<>>, calls |-> <<>>,
         warnings |-> 0, copied |-> <<>>, nullDeref |-> FALSE,
         crashed |-> FALSE],
        FALSE, TRUE)

Init ==
    /\ form \in Forms
    /\ helper = Constructed(form).helper
    /\ currentPoint = Constructed(form).currentPoint
    /\ enabled = Constructed(form).enabled
    /\ easting = Constructed(form).easting
    /\ northing = Constructed(form).northing
    /\ elevation = Constructed(form).elevation
    /\ rows = Constructed(form).rows
    /\ listCurrent = Constructed(form).listCurrent
    /\ gcps = Constructed(form).gcps
    /\ editsLeft = MaxEdits
    /\ ev = Event("construct", INVALID_POINT, "", FALSE, FALSE)
    /\ nShow = 0
    /\ shownId = INVALID_POINT
    /\ nSelect = 0
    /\ selected = INVALID_POINT
    /\ nSetPos = 0
    /\ modified = <<>>
    /\ calls = <<>>
    /\ warnings = 0
    /\ copied = <<>>
    /\ nullDeref = FALSE
    /\ crashed = FALSE

----------------------------------------------------------------------------
(* Events *)

\* GroundControlPointsView::setHelper(helper)
SetHelper ==
    /\ ~crashed
    /\ Commit(resetPoints([Begin EXCEPT !.helper = TheHelper]))
    /\ ev' = Event("setHelper", INVALID_POINT, "", FALSE, FALSE)
    /\ UNCHANGED editsLeft

\* the user clicks row r of the list
RowSelected ==
    /\ ~crashed
    /\ \E r \in rows :
          /\ Commit(setCurrentIndex(Begin, r))
          /\ ev' = Event("rowSelected", r, "", FALSE, FALSE)
    /\ UNCHANGED editsLeft

\* the helper emits activePointChanged(id)
ActivePointChanged ==
    /\ ~crashed
    /\ helper # NoHelper
    /\ \E id \in IdT :
          /\ Commit(onActivePointChanged(Begin, id))
          /\ ev' = Event("activePointChanged", id, "", FALSE, FALSE)
    /\ UNCHANGED editsLeft

\* the helper changes point id and emits pointChanged(id)
PointChanged ==
    /\ ~crashed
    /\ \E id \in DOMAIN gcps, v \in EnvGcps :
          /\ Commit(changePoint(Begin, id, v))
          /\ ev' = Event("pointChanged", id, "", FALSE, FALSE)
    /\ UNCHANGED editsLeft

\* the helper recomputes the points that are not user-provided and emits
\* pointsRecomputed
PointsRecomputed ==
    /\ ~crashed
    /\ \E v \in EnvGcps :
          LET s == [Begin EXCEPT !.gcps =
                       [i \in DOMAIN @ |->
                           IF @[i].userProvided THEN @[i] ELSE v]]
          IN  /\ Commit(IF s.helper # NoHelper
                        THEN onPointsRecomputed(s) ELSE s)
              /\ ev' = Event("pointsRecomputed", INVALID_POINT, "",
                             FALSE, FALSE)
    /\ UNCHANGED editsLeft

\* the helper creates point id and emits pointAdded(id)
PointAdded ==
    /\ ~crashed
    /\ \E id \in Ids \ DOMAIN gcps, v \in EnvGcps :
          LET s == [Begin EXCEPT !.gcps =
                       [i \in DOMAIN @ \cup {id} |->
                           IF i = id THEN v ELSE @[i]]]
          IN  /\ Commit(IF s.helper # NoHelper THEN addPoint(s, id) ELSE s)
              /\ ev' = Event("pointAdded", id, "", FALSE, FALSE)
    /\ UNCHANGED editsLeft

\* the helper removes point id on its own and emits pointRemoved(id)
PointRemoved ==
    /\ ~crashed
    /\ \E id \in DOMAIN gcps :
          \E next \in NextRows(State, id) :
             /\ Commit(removePoint(Begin, id, next))
             /\ ev' = Event("pointRemoved", id, "", FALSE, FALSE)
    /\ UNCHANGED editsLeft

\* the helper replaces its points (a file is read) and emits pointsReloaded
PointsReloaded ==
    /\ ~crashed
    /\ \E S \in SUBSET Ids :
       \E v \in IF S = {} THEN {NoValue} ELSE EnvGcps :
          LET s == [Begin EXCEPT !.gcps = [i \in S |-> v]]
          IN  /\ Commit(IF s.helper # NoHelper THEN resetPoints(s) ELSE s)
              /\ ev' = Event("pointsReloaded", INVALID_POINT, "",
                             FALSE, FALSE)
    /\ UNCHANGED editsLeft

\* the user types v into editor f
EditField ==
    /\ ~crashed
    /\ editsLeft > 0
    /\ \E f \in Fields, v \in EditValues :
          LET s == IF isEnabled(Begin, f)
                   THEN setValue(Begin, f, Dec(v, form[f].decimals), FALSE)
                   ELSE Begin
          IN  /\ Commit(s)
              /\ ev' = Input(State, f,
                             Event("edit", currentPoint, f, FALSE, FALSE))
              /\ editsLeft' = IF s.modified # <<>>
                              THEN editsLeft - 1 ELSE editsLeft

\* the user triggers actionDelete
DeleteTriggered ==
    /\ ~crashed
    /\ \E next \in NextRows(State, currentPoint) :
          /\ Commit(IF isEnabled(Begin, "actionDelete")
                    THEN deleteTriggered(Begin, next) ELSE Begin)
          /\ ev' = Input(State, "actionDelete",
                         Event("delete", currentPoint, "", FALSE, FALSE))
    /\ UNCHANGED editsLeft

\* the user triggers actionRevert
RevertTriggered ==
    /\ ~crashed
    /\ \E v \in EnvGcps :
          /\ Commit(IF isEnabled(Begin, "actionRevert")
                    THEN revertTriggered(Begin, v) ELSE Begin)
          /\ ev' = Input(State, "actionRevert",
                         Event("revert", currentPoint, "", FALSE, FALSE))
    /\ UNCHANGED editsLeft

\* the user triggers one of the four copy-location actions
CopyTriggered ==
    /\ ~crashed
    /\ \E nf \in BOOLEAN, ie \in BOOLEAN :
          \E dies \in Outcomes(State, copyAction(nf, ie)) :
             /\ Commit(IF isEnabled(Begin, copyAction(nf, ie))
                       THEN copyLocation(Begin, nf, ie, dies) ELSE Begin)
             /\ ev' = Input(State, copyAction(nf, ie),
                            Event("copy", currentPoint, "", nf, ie))
    /\ UNCHANGED editsLeft

Next ==
    \/ SetHelper
    \/ RowSelected
    \/ ActivePointChanged
    \/ PointChanged
    \/ PointsRecomputed
    \/ PointAdded
    \/ PointRemoved
    \/ PointsReloaded
    \/ EditField
    \/ DeleteTriggered
    \/ RevertTriggered
    \/ CopyTriggered

Spec == Init /\ [][Next]_vars

----------------------------------------------------------------------------
(* Properties *)

AllDisabled == \A c \in Controls : ~enabled[c]

\* the helper holds the point last given to showPoint
ShownFound ==
    /\ nShow >= 1
    /\ helper # NoHelper
    /\ shownId # INVALID_POINT
    /\ shownId \in DOMAIN gcps

\* C1: a showPoint call whose id is the sentinel, or that finds no helper
\* or no point for the id, leaves currentPoint at the sentinel and every
\* editing control disabled.
C1_ShowMissingClears ==
    (nShow >= 1 /\ ~ShownFound) =>
        (currentPoint = INVALID_POINT /\ AllDisabled)

\* a point was current and its controls enabled (pointsRecomputed calls
\* showPoint only then), and the helper no longer has it
C1_Witness ==
    /\ ev.name = "pointsRecomputed"
    /\ nShow = 1
    /\ shownId \in Ids \ DOMAIN gcps
    /\ currentPoint = INVALID_POINT
    /\ AllDisabled

\* C2: activePointChanged(id) with id other than the current point calls
\* showPoint once and updates the list selection once, for id; with id equal
\* to the current point nothing is called and nothing changes.
C2_ActivePointOnce ==
    [][ev'.name = "activePointChanged" =>
          IF ev'.id # currentPoint
          THEN /\ nShow' = 1
               /\ shownId' = ev'.id
               /\ nSelect' = 1
               /\ selected' = (IF ev'.id \in rows THEN ev'.id
                               ELSE INVALID_POINT)
          ELSE /\ nShow' = 0
               /\ nSelect' = 0
               /\ UNCHANGED <<form, helper, currentPoint, enabled, easting,
                              northing, elevation, rows, listCurrent, gcps>>
      ]_vars

\* the active point moved to a point while another row was current
C2_Witness ==
    /\ ev.name = "activePointChanged"
    /\ currentPoint = ev.id
    /\ ev.id \in Ids
    /\ listCurrent \in Ids \ {ev.id}
    /\ nShow = 1
    /\ nSelect = 1
    /\ selected = ev.id

\* C3: the events that display a point (row selection, activePointChanged,
\* pointChanged, pointsRecomputed) never call setPointPosition and never
\* reach model.modifyPoint; the points keep what the helper stored.
C3_DisplayCommitsNothing ==
    [][ev'.name \in {"rowSelected", "activePointChanged", "pointChanged",
                     "pointsRecomputed"} =>
          /\ nSetPos' = 0
          /\ modified' = <<>>
          /\ ev'.name \in {"rowSelected", "activePointChanged"} =>
                gcps' = gcps
          /\ ev'.name = "pointChanged" =>
                \E v \in EnvGcps : gcps' = [gcps EXCEPT ![ev'.id] = v]
          /\ ev'.name = "pointsRecomputed" =>
                \E v \in EnvGcps :
                   gcps' = [i \in DOMAIN gcps |->
                               IF gcps[i].userProvided THEN gcps[i] ELSE v]
      ]_vars

\* a row selection put new values into the editors
C3_Witness ==
    /\ ev.name = "rowSelected"
    /\ nShow = 1
    /\ currentPoint = ev.id
    /\ northing.n # 0
    /\ elevation.n # 0
    /\ nSetPos = 0

\* the last shown point has a location whose conversion fails
ShownUnconvertible ==
    /\ ShownFound
    /\ ~is_empty(gcps[shownId].loc)
    /\ conversionThrows(gcps[shownId].loc)

\* C4 as stated: a failed conversion leaves the point current, the controls
\* enabled, a warning logged and all three displayed fields zero.
C4_AllFieldsZero ==
    ShownUnconvertible =>
        /\ currentPoint = shownId
        /\ \A c \in Controls : enabled[c]
        /\ warnings >= 1
        /\ easting.n = 0
        /\ northing.n = 0
        /\ elevation.n = 0

\* C4 as amended: a failed conversion leaves the point current, the controls
\* enabled, a warning logged and the easting and northing fields zero; the
\* elevation field shows the point's stored elevation, as the editor holds
\* it.
C4_CoordinatesZero ==
    ShownUnconvertible =>
        /\ currentPoint = shownId
        /\ \A c \in Controls : enabled[c]
        /\ warnings >= 1
        /\ easting.n = 0
        /\ northing.n = 0
        /\ elevation = displayed(gcps[shownId].elevation, form["elevation"])

C4_Witness ==
    /\ ShownUnconvertible
    /\ ev.name = "rowSelected"
    /\ warnings = 1
    /\ easting.n = 0
    /\ elevation.n # 0

\* the current point is in the helper with a location that converts
CurrentConvertible ==
    /\ helper # NoHelper
    /\ currentPoint # INVALID_POINT
    /\ currentPoint \in DOMAIN gcps
    /\ ~is_empty(gcps[currentPoint].loc)
    /\ ~conversionThrows(gcps[currentPoint].loc)

\* the event changed the current point or its data
MirrorEvent ==
    \/ ev.name \in {"rowSelected", "activePointChanged"} /\ nShow >= 1
    \/ ev.name = "pointChanged" /\ ev.id = currentPoint
    \/ ev.name = "pointsRecomputed"
    \/ ev.name = "revert"

\* C5 as stated: after an event that changed the current point (a row
\* selection that moved the current index, activePointChanged with a new id)
\* or changed its data (pointChanged of the current id, pointsRecomputed, a
\* revert), a current point whose location converts is mirrored by the
\* editors: easting and northing equal the converted x and y, elevation
\* equals the point's elevation.
C5_FieldsEqual ==
    MirrorEvent =>
        (CurrentConvertible =>
            /\ SameValue(easting, location(gcps[currentPoint].loc).x)
            /\ SameValue(northing, location(gcps[currentPoint].loc).y)
            /\ SameValue(elevation, gcps[currentPoint].elevation))

\* C5 as amended: after such an event each editor holds the converted x,
\* the converted y and the elevation of the current point rounded to the
\* editor's decimals and bounded to the editor's range.
C5_FieldsMirror ==
    MirrorEvent =>
        (CurrentConvertible =>
            /\ easting = displayed(location(gcps[currentPoint].loc).x,
                                   form["easting"])
            /\ northing = displayed(location(gcps[currentPoint].loc).y,
                                    form["northing"])
            /\ elevation = displayed(gcps[currentPoint].elevation,
                                     form["elevation"]))

\* the helper moved the current point to a location in a projected frame,
\* whose converted northing the editor shows rounded
C5_Witness ==
    /\ ev.name = "pointChanged"
    /\ nShow = 1
    /\ CurrentConvertible
    /\ gcps[currentPoint].loc.crs = UTM
    /\ northing.n # 0
    /\ northing = round(location(gcps[currentPoint].loc).y, form["northing"])
    /\ ~SameValue(northing, location(gcps[currentPoint].loc).y)

\* C6: after showPoint of a point the helper has, the editors, delete,
\* revert and the copy button are enabled, and the four copy actions are
\* enabled exactly when the point has a location.
C6_CopyNeedsLocation ==
    ShownFound =>
        /\ currentPoint = shownId
        /\ \A c \in Controls \ CopyActions : enabled[c]
        /\ \A c \in CopyActions :
              enabled[c] <=> ~is_empty(gcps[shownId].loc)

C6_Witness ==
    /\ ShownFound
    /\ is_empty(gcps[shownId].loc)
    /\ enabled["actionDelete"]
    /\ enabled["actionRevert"]
    /\ enabled["elevation"]
    /\ ~enabled["actionCopyLocationLatLon"]
    /\ ~enabled["actionCopyLocationLonLatElev"]

\* the edit of ev'.f changed the value of that editor
FieldChanged ==
    \/ ev'.f = "easting" /\ easting' # easting
    \/ ev'.f = "northing" /\ northing' # northing
    \/ ev'.f = "elevation" /\ elevation' # elevation

\* C7: a user change of an editor while the current point is in the helper
\* stores (easting, northing) as the point's WGS84 location, the elevation
\* field as its elevation and TRUE as its user-provided flag, notifies the
\* model once with the current id, and touches no other point and not the
\* current id.
C7_EditCommits ==
    [][(/\ ev'.name = "edit"
        /\ FieldChanged
        /\ helper # NoHelper
        /\ currentPoint # INVALID_POINT
        /\ currentPoint \in DOMAIN gcps) =>
          /\ gcps' = [gcps EXCEPT ![currentPoint] =
                         [loc |-> [empty |-> FALSE, crs |-> lat_lon_WGS84,
                                   x |-> easting', y |-> northing'],
                          elevation |-> elevation',
                          userProvided |-> TRUE]]
          /\ modified' = <<currentPoint>>
          /\ currentPoint' = currentPoint
      ]_vars

\* an edit of the easting was stored while the helper held a second point
C7_Witness ==
    /\ ev.name = "edit"
    /\ ev.f = "easting"
    /\ modified = <<currentPoint>>
    /\ DOMAIN gcps = Ids
    /\ gcps[currentPoint].userProvided
    /\ gcps[currentPoint].loc.crs = lat_lon_WGS84
    /\ gcps[currentPoint].loc.x = easting
    /\ gcps[currentPoint].loc.x # gcps[currentPoint].loc.y

\* C8: a copy-location action on a current point with a location puts on
\* the clipboard lat,lon (northingFirst) or lon,lat, each with 9 decimals,
\* followed by the elevation with 3 decimals exactly when includeElevation;
\* with no location, or a point the helper does not have, the clipboard is
\* not written.
C8_CopyText ==
    [][ev'.name = "copy" =>
          IF /\ helper # NoHelper
             /\ currentPoint \in DOMAIN gcps
             /\ ~is_empty(gcps[currentPoint].loc)
          THEN LET gcp == gcps[currentPoint]
                   fails == conversionThrows(gcp.loc)
                   lat == number(IF fails THEN Bin(0, 0)
                                 ELSE location(gcp.loc).y, CoordPrecision)
                   lon == number(IF fails THEN Bin(0, 0)
                                 ELSE location(gcp.loc).x, CoordPrecision)
                   elev == number(gcp.elevation, ElevPrecision)
               IN  copied' =
                      << (IF ev'.nf THEN <<lat, lon>> ELSE <<lon, lat>>)
                         \o (IF ev'.ie THEN <<elev>> ELSE <<>>) >>
          ELSE copied' = <<>>
      ]_vars

\* lat,lon,elev of a point whose latitude and longitude differ as text
C8_Witness ==
    /\ ev.name = "copy"
    /\ ev.nf
    /\ ev.ie
    /\ Len(copied) = 1
    /\ Len(copied[1]) = 3
    /\ copied[1][1] # copied[1][2]
    /\ copied[1][2].neg
    /\ copied[1][3].prec = ElevPrecision

\* C9: while the current point is the sentinel, a copy, edit, delete or
\* revert attempt calls through no missing helper, calls no helper
\* operation, and leaves the points, the clipboard, the model and the
\* current point alone.
C9_SentinelAttemptsNoOp ==
    [][(/\ currentPoint = INVALID_POINT
        /\ ev'.name \in {"ignored", "copy", "edit", "delete", "revert"}) =>
          /\ ~nullDeref'
          /\ ~crashed'
          /\ calls' = <<>>
          /\ modified' = <<>>
          /\ copied' = <<>>
          /\ gcps' = gcps
          /\ currentPoint' = currentPoint
      ]_vars

\* an attempt before any helper was set
C9_Witness ==
    /\ ev.name = "ignored"
    /\ helper = NoHelper
    /\ currentPoint = INVALID_POINT
    /\ ~crashed

\* C10: in every reachable state the editors, delete, revert and the copy
\* button are enabled exactly when the current point is not the sentinel,
\* and an enabled copy action implies a current point.
C10_ControlsFollowCurrent ==
    /\ \A c \in Controls \ CopyActions :
          enabled[c] <=> currentPoint # INVALID_POINT
    /\ \A c \in CopyActions :
          enabled[c] => currentPoint # INVALID_POINT

\* controls enabled for a point the helper dropped behind the view's back
C10_Witness ==
    /\ ev.name = "pointsReloaded"
    /\ currentPoint \in Ids \ DOMAIN gcps
    /\ enabled["easting"]
    /\ enabled["actionCopyLocationLatLon"]

=============================================================================
